---- MODULE Spec2Model ----
(***************************************************************************)
(* A model of the raster sweeps of fm40-updater:                           *)
(*   convert_bs_to_dist         (dist.py)   burn severity -> DIST codes    *)
(*   combine_dist_rasters       (dist.py)   priority merge of DIST rasters *)
(*   combine_dist_rasters_multi (dist.py)   the thread-pool variant        *)
(*   update_fm40_raster         (fm40_updater.py)  FM40 reclassification   *)
(*                                                                         *)
(* A raster is a sequence of NTiles block windows.  A window's buffer is   *)
(* modelled by one pixel (1x1 blocks): every per-pixel function of the     *)
(* source is applied element-wise by numpy, so a buffer of k pixels is k   *)
(* independent copies of what is modelled here.                            *)
(*                                                                         *)
(* A raster file that is read once during a sweep has its content drawn    *)
(* when the window is read; the specification that compares two sweeps     *)
(* over the same rasters (SpecMulti) fixes the content in Init.            *)
(***************************************************************************)
EXTENDS Integers, Sequences, FiniteSets, TLC

\* ---------------------------------------------------------------- bounds
\* number of block windows of a raster
NTiles == 2
\* the oldest fire considered is MaxAge years before the effective year
MaxAge == 11
\* the longest list of DIST rasters given to a combine
MaxRasters == 3
\* the largest num_workers given to combine_dist_rasters_multi
MaxWorkers == 2
\* the longest ruleset CSV, in rows
MaxRows == 1
\* the longest list of burn-severity years given to main
MaxBatch == 3

Windows == 1..NTiles

\* An optional value (Python's x or None) is the sequence <<x>> or <<>>.
None == <<>>
Some(x) == <<x>>
\* "no exception"
NoErr == "none"

\* ------------------------------------------------------------ dist.py
\* nodata=0 of the DIST profile
DistNodata == 0

\* the fixed severity map of convert_bs_to_dist
bs_to_dist_sev_map == (5 :> 1) @@ (4 :> 3) @@ (3 :> 2) @@ (2 :> 1) @@ (1 :> 1)

\* ndarray.astype(uint16) on an integer
AsUint16(x) == x % 65536

\* the effective years and the fire years the conversions are run for
EffYears == {2018}
FireYears == UNION {(ey - MaxAge)..(ey + 1) : ey \in EffYears}

\* pixel values a burn-severity raster may hold (1..5 are the MTBS classes)
BSVals == {0, 1, 2, 3, 4, 5, 6}

\* (mutant) the validation lets a fire of the year after through
FireAfterEffective_Late(fire_year, effective_year) == fire_year > effective_year + 1

\* the input validation of convert_bs_to_dist: TRUE when it raises ValueError
FireAfterEffective(fire_year, effective_year) == fire_year > effective_year

\* (mutant) the second bucket ends one year early
TimeCode_OffByOne(fire_year, effective_year) ==
    LET years_since_fire == effective_year - fire_year
    IN  IF years_since_fire < 1 THEN Some(1)
        ELSE IF 1 <= years_since_fire /\ years_since_fire < 5 THEN Some(2)
        ELSE IF 5 <= years_since_fire /\ years_since_fire <= 10 THEN Some(3)
        ELSE None

\* "1. Calculate Time Since Disturbance and determine Time Code"
TimeCode(fire_year, effective_year) ==
    LET years_since_fire == effective_year - fire_year
    IN  IF years_since_fire < 1 THEN Some(1)
        ELSE IF 1 <= years_since_fire /\ years_since_fire <= 5 THEN Some(2)
        ELSE IF 5 < years_since_fire /\ years_since_fire <= 10 THEN Some(3)
        ELSE None

\* (mutant) severity and time code change places in the code
EncodePixel_Swapped(bs_val, time_code) ==
    IF time_code = None
    THEN AsUint16(DistNodata)
    ELSE IF bs_val \in DOMAIN bs_to_dist_sev_map
         THEN AsUint16(100 + (time_code[1] * 10) + bs_to_dist_sev_map[bs_val])
         ELSE AsUint16(DistNodata)

\* np.full(.., nodata) and, when there is a time code, np.select over the
\* keys of the severity map with default nodata; then astype(uint16)
EncodePixel(bs_val, time_code) ==
    IF time_code = None
    THEN AsUint16(DistNodata)
    ELSE IF bs_val \in DOMAIN bs_to_dist_sev_map
         THEN AsUint16(100 + (bs_to_dist_sev_map[bs_val] * 10) + time_code[1])
         ELSE AsUint16(DistNodata)

\* x.nodata if x.nodata is not None else 0
NodataOrZero(nodata_attr) == IF nodata_attr # None THEN nodata_attr[1] ELSE 0

\* the nodata attribute an FM40 raster may declare, and its pixel values
FM40NodataAttrs == {None, Some(-9999)}
FM40Vals == {-9999, 0, 91, 100, 165}

\* aligned_vrt(src, dst): the nodata value of the view, which fills the pixels
\* outside the extent of dst
AlignedVrtNodata(src_nodata_attr) == NodataOrZero(src_nodata_attr)

\* DIST_IMPACT_RANKING
DIST_IMPACT_RANKING ==
    (131 :> 1) @@ (132 :> 2) @@ (133 :> 3) @@
    (121 :> 4) @@ (122 :> 5) @@ (123 :> 6) @@
    (111 :> 7) @@ (112 :> 8) @@ (113 :> 9)

DEFAULT_RANK == 99

\* pixel values a DIST raster may hold: nodata, an invalid code, valid codes
DistVals == {0, 255, 112, 122, 131}

\* the nodata attribute a DIST raster may declare (src.nodata, optional)
DistNodataAttrs == {None, Some(0), Some(255)}

\* DIST_IMPACT_RANKING.get(code, DEFAULT_RANK)
ImpactRank(code) ==
    IF code \in DOMAIN DIST_IMPACT_RANKING THEN DIST_IMPACT_RANKING[code] ELSE DEFAULT_RANK

\* (mutant) the last index holding the minimum
ArgMin_Last(ranks) ==
    CHOOSE i \in 1..Len(ranks) :
        /\ \A j \in 1..Len(ranks) : ranks[i] <= ranks[j]
        /\ \A j \in (i + 1)..Len(ranks) : ranks[j] > ranks[i]

\* np.argmin along the raster axis: the first index holding the minimum
ArgMin(ranks) ==
    CHOOSE i \in 1..Len(ranks) :
        /\ \A j \in 1..Len(ranks) : ranks[i] <= ranks[j]
        /\ \A j \in 1..(i - 1) : ranks[j] > ranks[i]

\* np.take_along_axis(all_data, argmin(impact_ranks))
TakeMinRank(all_data) ==
    all_data[ArgMin([i \in 1..Len(all_data) |-> ImpactRank(all_data[i])])]

\* final_chunk[np.all(all_data == nodata_val, axis=0)] = nodata_val
AllNodata(all_data, nodata_val) == \A i \in 1..Len(all_data) : all_data[i] = nodata_val

\* (mutant) the all-nodata pixels receive the sentinel rank
CombinePixel_Sentinel(all_data, nodata_val) ==
    AsUint16(IF AllNodata(all_data, nodata_val) THEN DEFAULT_RANK ELSE TakeMinRank(all_data))

\* steps 5 and 6 of the combine for one pixel: the value written to dst
CombinePixel(all_data, nodata_val) ==
    AsUint16(IF AllNodata(all_data, nodata_val) THEN nodata_val ELSE TakeMinRank(all_data))

\* the stacks of n pixel values, one per input raster
Stacks(n) == [1..n -> DistVals]

\* the rasters SpecMulti combines twice: raster i holds DistSeq shifted by i + s
DistSeq == <<0, 131, 255, 112, 122, 0, 0>>
Scene(n, s) == [w \in Windows |-> [i \in 1..n |-> DistSeq[((w * i + s) % Len(DistSeq)) + 1]]]

VARIABLES
    \* convert_bs_to_dist
    cv_fire_year,       \* argument fire_year
    cv_effective_year,  \* argument effective_year
    cv_align_nodata_attr, \* alignment_src.nodata (optional): the FM40 raster's
    cv_pc,              \* position in the function
    cv_time_code,       \* local time_code (optional)
    cv_handles,         \* the dataset handles that are open
    cv_window,          \* index of the window the loop is at
    cv_bs_data,         \* local bs_data
    cv_out,             \* the output DIST file: <<>> while it does not exist,
                        \* else its pixel per window
    cv_writes,          \* number of dst.write calls that reached each window
    cv_err,             \* the exception in flight or raised, NoErr if none
    \* the inputs of both combines
    dist_n,             \* len(dist_raster_paths)
    dist_nodata_attr,   \* the nodata attribute of the first DIST raster
    dist_disk,          \* None: a window's content is drawn when it is read;
                        \* Some(r): r[w] is the stack of the n rasters at window w
    \* combine_dist_rasters
    cb_pc,              \* position in the function
    cb_src_open,        \* how many of src_files are open (opened in list order)
    cb_dst_open,        \* the output dataset is open
    cb_window,          \* index of the window the loop is at
    cb_all_data,        \* local all_data
    cb_out,             \* the output file: <<>> while it does not exist
    cb_writes,          \* number of dst.write calls that reached each window
    cb_caught,          \* the exception the except clause printed, NoErr if none
    cb_err,             \* the exception raised to the caller, NoErr if none
    cb_ret,             \* the return value (optional path)
    \* combine_dist_rasters_multi
    cm_num_workers,     \* argument num_workers
    cm_pc,              \* position in the function
    cm_src_open,        \* how many of src_files are open
    cm_dst_open,        \* the output dataset is open
    cm_task,            \* per window, the state of process(window)
    cm_chunk,           \* per window, the task's local final_chunk
    cm_lock,            \* write_lock: 0 when free, else the window of its holder
    cm_out,             \* the output file: <<>> while it does not exist
    cm_writes,          \* number of dst.write calls that reached each window
    cm_err,             \* the exception raised to the caller, NoErr if none
    cm_ret,             \* the return value (optional path)
    \* update_fm40_raster
    up_rules,           \* local update_rules: None, or Some(table)
    up_fm40_nodata_attr,\* src_fm40.nodata (optional)
    up_dist_nodata_attr,\* src_dist.nodata (optional)
    up_needs_alignment, \* local needs_alignment
    up_pc,              \* position in the function
    up_handles,         \* the dataset handles that are open
    up_window,          \* index of the window the loop is at
    up_fm40_data,       \* local fm40_data
    up_dist_data,       \* local dist_data
    up_outside,         \* the pixel of dist_data lies outside the extent of src_dist
    up_new_code,        \* what get_new_fm40 returned for the pixel (optional)
    up_chunk,           \* local updated_fm40_chunk
    up_out,             \* the output file: <<>> while it does not exist
    up_writes,          \* number of dst_fm40.write calls that reached each window
    up_err,             \* the exception in flight or raised, NoErr if none
    \* main.py
    mn_bs_rasters,      \* bs_rasters: the fire year in the name of each BS raster
    mn_effective_year,  \* args.effyear
    mn_exists,          \* the output files that exist when the script starts
    mn_pc,              \* position in the script
    mn_i,               \* index of bs_path in the loop of step 1
    mn_conv,            \* per BS raster, what step 1 did with it
    mn_dist_paths,      \* dist_paths
    mn_bound,           \* the name combined_dist_raster is bound
    mn_combined_dist_raster, \* its value when bound (optional path)
    mn_update_called,   \* update_fm40_raster has been called
    mn_update_arg,      \* the dist_raster_path it was given (optional path)
    mn_err              \* the exception that ended the script, NoErr if none

cv_vars == <<cv_fire_year, cv_effective_year, cv_align_nodata_attr, cv_pc, cv_time_code, cv_handles,
             cv_window, cv_bs_data, cv_out, cv_writes, cv_err>>
in_vars == <<dist_n, dist_nodata_attr, dist_disk>>
cb_vars == <<cb_pc, cb_src_open, cb_dst_open, cb_window, cb_all_data, cb_out,
             cb_writes, cb_caught, cb_err, cb_ret>>
cm_vars == <<cm_num_workers, cm_pc, cm_src_open, cm_dst_open, cm_task, cm_chunk,
             cm_lock, cm_out, cm_writes, cm_err, cm_ret>>
up_vars == <<up_rules, up_fm40_nodata_attr, up_dist_nodata_attr, up_needs_alignment,
             up_pc, up_handles, up_window, up_fm40_data, up_dist_data, up_outside,
             up_new_code,
             up_chunk, up_out, up_writes, up_err>>
mn_vars == <<mn_bs_rasters, mn_effective_year, mn_exists, mn_pc, mn_i, mn_conv,
             mn_dist_paths, mn_bound, mn_combined_dist_raster, mn_update_called,
             mn_update_arg, mn_err>>


\* the handles a "with" statement of convert_bs_to_dist closes on exit
CvScoped == {"src", "alignment_src", "dst"}

CvIdle ==
    /\ cv_fire_year = 0
    /\ cv_effective_year = 0
    /\ cv_align_nodata_attr = None
    /\ cv_pc = "idle"
    /\ cv_time_code = None
    /\ cv_handles = {}
    /\ cv_window = 0
    /\ cv_bs_data = 0
    /\ cv_out = <<>>
    /\ cv_writes = [w \in Windows |-> 0]
    /\ cv_err = NoErr

CvInit ==
    /\ cv_effective_year \in EffYears
    /\ cv_fire_year \in FireYears
    /\ cv_align_nodata_attr \in FM40NodataAttrs
    /\ cv_pc = "start"
    /\ cv_time_code = None
    /\ cv_handles = {}
    /\ cv_window = 0
    /\ cv_bs_data = 0
    /\ cv_out = <<>>
    /\ cv_writes = [w \in Windows |-> 0]
    /\ cv_err = NoErr

\* an exception raised inside the "with" blocks: they unwind, then it propagates
CvThrow(err) ==
    /\ cv_pc' = "unwind"
    /\ cv_err' = err

\* lines 61-87: validation, then the time code
CvValidate ==
    /\ UNCHANGED <<in_vars, cb_vars, cm_vars, up_vars, mn_vars>>
    /\ cv_pc = "start"
    /\ IF FireAfterEffective(cv_fire_year, cv_effective_year)
       THEN /\ cv_pc' = "raised"
            /\ cv_err' = "ValueError"
            /\ UNCHANGED cv_time_code
       ELSE /\ cv_pc' = "open_src"
            /\ cv_time_code' = TimeCode(cv_fire_year, cv_effective_year)
            /\ UNCHANGED cv_err
    /\ UNCHANGED <<cv_fire_year, cv_effective_year, cv_align_nodata_attr, cv_handles,
                   cv_window, cv_bs_data, cv_out, cv_writes>>

\* line 90: with rasterio.open(bs_raster_path) as src
CvOpenSrc ==
    /\ UNCHANGED <<in_vars, cb_vars, cm_vars, up_vars, mn_vars>>
    /\ cv_pc = "open_src"
    /\ \/ /\ cv_handles' = cv_handles \cup {"src"}
          /\ cv_pc' = "open_align"
          /\ UNCHANGED cv_err
       \/ /\ cv_pc' = "raised"
          /\ cv_err' = "IOError"
          /\ UNCHANGED cv_handles
    /\ UNCHANGED <<cv_fire_year, cv_effective_year, cv_align_nodata_attr, cv_time_code,
                   cv_window, cv_bs_data, cv_out, cv_writes>>

\* line 93: with rasterio.open(align_to) as alignment_src
CvOpenAlign ==
    /\ UNCHANGED <<in_vars, cb_vars, cm_vars, up_vars, mn_vars>>
    /\ cv_pc = "open_align"
    /\ \/ /\ cv_handles' = cv_handles \cup {"alignment_src"}
          /\ cv_pc' = "vrt"
          /\ UNCHANGED cv_err
       \/ /\ CvThrow("IOError")
          /\ UNCHANGED cv_handles
    /\ UNCHANGED <<cv_fire_year, cv_effective_year, cv_align_nodata_attr, cv_time_code,
                   cv_window, cv_bs_data, cv_out, cv_writes>>

\* line 94: aligned_src = aligned_vrt(alignment_src, src), bound to no "with"
CvAlignedVrt ==
    /\ UNCHANGED <<in_vars, cb_vars, cm_vars, up_vars, mn_vars>>
    /\ cv_pc = "vrt"
    /\ \/ /\ cv_handles' = cv_handles \cup {"aligned_src"}
          /\ cv_pc' = "create"
          /\ UNCHANGED cv_err
       \/ /\ CvThrow("AlignmentError")
          /\ UNCHANGED cv_handles
    /\ UNCHANGED <<cv_fire_year, cv_effective_year, cv_align_nodata_attr, cv_time_code,
                   cv_window, cv_bs_data, cv_out, cv_writes>>

\* line 104: with rasterio.open(output_dist_path, 'w', **profile) as dst
CvCreateDst ==
    /\ UNCHANGED <<in_vars, cb_vars, cm_vars, up_vars, mn_vars>>
    /\ cv_pc = "create"
    /\ \/ /\ cv_handles' = cv_handles \cup {"dst"}
          /\ cv_out' = [w \in Windows |-> DistNodata]
          /\ cv_window' = 1
          /\ cv_pc' = "loop"
          /\ UNCHANGED cv_err
       \/ /\ CvThrow("IOError")
          /\ UNCHANGED <<cv_handles, cv_out, cv_window>>
    /\ UNCHANGED <<cv_fire_year, cv_effective_year, cv_align_nodata_attr, cv_time_code, cv_bs_data, cv_writes>>

\* lines 106-108: the next window, bs_data = aligned_src.read(1, window=window):
\* a pixel of the BS raster, or the nodata of the view outside its extent
CvRead ==
    /\ UNCHANGED <<in_vars, cb_vars, cm_vars, up_vars, mn_vars>>
    /\ cv_pc = "loop"
    /\ cv_window <= NTiles
    /\ \/ /\ \E v \in BSVals \cup {AlignedVrtNodata(cv_align_nodata_attr)} :
                cv_bs_data' = v
          /\ cv_pc' = "write"
          /\ UNCHANGED cv_err
       \/ /\ CvThrow("IOError")
          /\ UNCHANGED cv_bs_data
    /\ UNCHANGED <<cv_fire_year, cv_effective_year, cv_align_nodata_attr, cv_time_code, cv_handles,
                   cv_window, cv_out, cv_writes>>

\* lines 111-135: the chunk is encoded and written
CvWrite ==
    /\ UNCHANGED <<in_vars, cb_vars, cm_vars, up_vars, mn_vars>>
    /\ cv_pc = "write"
    /\ \/ /\ cv_out' = [cv_out EXCEPT ![cv_window] = EncodePixel(cv_bs_data, cv_time_code)]
          /\ cv_writes' = [cv_writes EXCEPT ![cv_window] = @ + 1]
          /\ cv_window' = cv_window + 1
          /\ cv_pc' = "loop"
          /\ UNCHANGED cv_err
       \/ /\ CvThrow("IOError")
          /\ UNCHANGED <<cv_out, cv_writes, cv_window>>
    /\ UNCHANGED <<cv_fire_year, cv_effective_year, cv_align_nodata_attr, cv_time_code, cv_handles,
                   cv_bs_data>>

\* the loop is exhausted: the "with" blocks are left normally
CvLoopEnd ==
    /\ UNCHANGED <<in_vars, cb_vars, cm_vars, up_vars, mn_vars>>
    /\ cv_pc = "loop"
    /\ cv_window > NTiles
    /\ cv_pc' = "unwind"
    /\ UNCHANGED <<cv_fire_year, cv_effective_year, cv_align_nodata_attr, cv_time_code, cv_handles,
                   cv_window, cv_bs_data, cv_out, cv_writes, cv_err>>

\* leaving the "with" blocks closes dst, alignment_src and src; aligned_src is
\* closed by nothing in the function: whether it is still open after the
\* return is left to the interpreter's finalisation (gc)
CvExit ==
    /\ UNCHANGED <<in_vars, cb_vars, cm_vars, up_vars, mn_vars>>
    /\ cv_pc = "unwind"
    /\ \E gc \in BOOLEAN :
          cv_handles' = IF gc THEN {} ELSE cv_handles \ CvScoped
    /\ cv_pc' = IF cv_err = NoErr THEN "returned" ELSE "raised"
    /\ UNCHANGED <<cv_fire_year, cv_effective_year, cv_align_nodata_attr, cv_time_code,
                   cv_window, cv_bs_data, cv_out, cv_writes, cv_err>>

CvNext ==
    \/ CvValidate
    \/ CvOpenSrc
    \/ CvOpenAlign
    \/ CvAlignedVrt
    \/ CvCreateDst
    \/ CvRead
    \/ CvWrite
    \/ CvLoopEnd
    \/ CvExit

\* ------------------------------------------------ combine_dist_rasters

OutputPath == "output_path"

\* what src.read(1, window=w) returns for the n rasters
WindowContent(w) == IF dist_disk = None THEN Stacks(dist_n) ELSE {dist_disk[1][w]}

InIdle ==
    /\ dist_n = 0
    /\ dist_nodata_attr = None
    /\ dist_disk = None

CbIdle ==
    /\ cb_pc = "idle"
    /\ cb_src_open = 0
    /\ cb_dst_open = FALSE
    /\ cb_window = 0
    /\ cb_all_data = <<>>
    /\ cb_out = <<>>
    /\ cb_writes = [w \in Windows |-> 0]
    /\ cb_caught = NoErr
    /\ cb_err = NoErr
    /\ cb_ret = None

CbInit ==
    /\ cb_pc = "start"
    /\ cb_src_open = 0
    /\ cb_dst_open = FALSE
    /\ cb_window = 0
    /\ cb_all_data = <<>>
    /\ cb_out = <<>>
    /\ cb_writes = [w \in Windows |-> 0]
    /\ cb_caught = NoErr
    /\ cb_err = NoErr
    /\ cb_ret = None

\* lines 159-161: if not dist_raster_paths: return None
CbStart ==
    /\ UNCHANGED <<cv_vars, in_vars, cm_vars, up_vars, mn_vars>>
    /\ cb_pc = "start"
    /\ IF dist_n = 0
       THEN /\ cb_pc' = "returned"
            /\ cb_ret' = None
       ELSE /\ cb_pc' = "open"
            /\ UNCHANGED cb_ret
    /\ UNCHANGED <<cb_src_open, cb_dst_open, cb_window, cb_all_data, cb_out,
                   cb_writes, cb_caught, cb_err>>

\* line 166: src_files = [rasterio.open(p) for p in dist_raster_paths], before
\* the try: a failed open propagates and the files opened so far are closed by
\* nothing in the function (gc: the interpreter's finalisation may close them)
CbOpenSrc ==
    /\ UNCHANGED <<cv_vars, in_vars, cm_vars, up_vars, mn_vars>>
    /\ cb_pc = "open"
    /\ cb_src_open < dist_n
    /\ \/ /\ cb_src_open' = cb_src_open + 1
          /\ cb_pc' = IF cb_src_open + 1 = dist_n THEN "create" ELSE "open"
          /\ UNCHANGED cb_err
       \/ /\ \E gc \in BOOLEAN : cb_src_open' = IF gc THEN 0 ELSE cb_src_open
          /\ cb_pc' = "raised"
          /\ cb_err' = "IOError"
    /\ UNCHANGED <<cb_dst_open, cb_window, cb_all_data, cb_out, cb_writes,
                   cb_caught, cb_ret>>

\* except Exception as e: print(...); the "with" has closed dst on the way
CbCatch(err) ==
    /\ cb_caught' = err
    /\ cb_dst_open' = FALSE
    /\ cb_pc' = "after_try"

\* lines 171-175: profile, nodata_val, with rasterio.open(output_path, 'w')
CbCreateDst ==
    /\ UNCHANGED <<cv_vars, in_vars, cm_vars, up_vars, mn_vars>>
    /\ cb_pc = "create"
    /\ \/ /\ cb_dst_open' = TRUE
          /\ cb_out' = [w \in Windows |-> NodataOrZero(dist_nodata_attr)]
          /\ cb_window' = 1
          /\ cb_pc' = "loop"
          /\ UNCHANGED cb_caught
       \/ /\ CbCatch("IOError")
          /\ UNCHANGED <<cb_out, cb_window>>
    /\ UNCHANGED <<cb_src_open, cb_all_data, cb_writes, cb_err, cb_ret>>

\* lines 177-181: the next window is read from every input raster
CbRead ==
    /\ UNCHANGED <<cv_vars, in_vars, cm_vars, up_vars, mn_vars>>
    /\ cb_pc = "loop"
    /\ cb_window <= NTiles
    /\ \/ /\ \E stack \in WindowContent(cb_window) : cb_all_data' = stack
          /\ cb_pc' = "write"
          /\ UNCHANGED <<cb_caught, cb_dst_open>>
       \/ /\ CbCatch("IOError")
          /\ UNCHANGED cb_all_data
    /\ UNCHANGED <<cb_src_open, cb_window, cb_out, cb_writes, cb_err, cb_ret>>

\* lines 184-197: the chunk is combined and written
CbWrite ==
    /\ UNCHANGED <<cv_vars, in_vars, cm_vars, up_vars, mn_vars>>
    /\ cb_pc = "write"
    /\ \/ /\ cb_out' = [cb_out EXCEPT ![cb_window] =
                           CombinePixel(cb_all_data, NodataOrZero(dist_nodata_attr))]
          /\ cb_writes' = [cb_writes EXCEPT ![cb_window] = @ + 1]
          /\ cb_window' = cb_window + 1
          /\ cb_pc' = "loop"
          /\ UNCHANGED <<cb_caught, cb_dst_open>>
       \/ /\ CbCatch("IOError")
          /\ UNCHANGED <<cb_out, cb_writes, cb_window>>
    /\ UNCHANGED <<cb_src_open, cb_all_data, cb_err, cb_ret>>

\* the loop is exhausted: the "with" closes dst
CbLoopEnd ==
    /\ UNCHANGED <<cv_vars, in_vars, cm_vars, up_vars, mn_vars>>
    /\ cb_pc = "loop"
    /\ cb_window > NTiles
    /\ cb_dst_open' = FALSE
    /\ cb_pc' = "after_try"
    /\ UNCHANGED <<cb_src_open, cb_window, cb_all_data, cb_out, cb_writes,
                   cb_caught, cb_err, cb_ret>>

\* lines 200-206: the finally that closed src_files is commented out; the
\* success message is printed and output_path returned on every path
CbReturn ==
    /\ UNCHANGED <<cv_vars, in_vars, cm_vars, up_vars, mn_vars>>
    /\ cb_pc = "after_try"
    /\ cb_ret' = Some(OutputPath)
    /\ cb_pc' = "returned"
    /\ \E gc \in BOOLEAN : cb_src_open' = IF gc THEN 0 ELSE cb_src_open
    /\ UNCHANGED <<cb_dst_open, cb_window, cb_all_data, cb_out, cb_writes,
                   cb_caught, cb_err>>

CbNext ==
    \/ CbStart
    \/ CbOpenSrc
    \/ CbCreateDst
    \/ CbRead
    \/ CbWrite
    \/ CbLoopEnd
    \/ CbReturn

\* ------------------------------------------ combine_dist_rasters_multi
CmIdle ==
    /\ cm_num_workers = 0
    /\ cm_pc = "idle"
    /\ cm_src_open = 0
    /\ cm_dst_open = FALSE
    /\ cm_task = [w \in Windows |-> "none"]
    /\ cm_chunk = [w \in Windows |-> 0]
    /\ cm_lock = 0
    /\ cm_out = <<>>
    /\ cm_writes = [w \in Windows |-> 0]
    /\ cm_err = NoErr
    /\ cm_ret = None

CmInit ==
    /\ cm_num_workers \in 1..MaxWorkers
    /\ cm_pc = "start"
    /\ cm_src_open = 0
    /\ cm_dst_open = FALSE
    /\ cm_task = [w \in Windows |-> "none"]
    /\ cm_chunk = [w \in Windows |-> 0]
    /\ cm_lock = 0
    /\ cm_out = <<>>
    /\ cm_writes = [w \in Windows |-> 0]
    /\ cm_err = NoErr
    /\ cm_ret = None

\* lines 229-231
CmStart ==
    /\ UNCHANGED <<cv_vars, in_vars, cb_vars, up_vars, mn_vars>>
    /\ cm_pc = "start"
    /\ IF dist_n = 0
       THEN /\ cm_pc' = "returned"
            /\ cm_ret' = None
       ELSE /\ cm_pc' = "open"
            /\ UNCHANGED cm_ret
    /\ UNCHANGED <<cm_num_workers, cm_src_open, cm_dst_open, cm_task, cm_chunk,
                   cm_lock, cm_out, cm_writes, cm_err>>

\* line 236: src_files = [rasterio.open(p) for p in dist_raster_paths]
CmOpenSrc ==
    /\ UNCHANGED <<cv_vars, in_vars, cb_vars, up_vars, mn_vars>>
    /\ cm_pc = "open"
    /\ cm_src_open < dist_n
    /\ \/ /\ cm_src_open' = cm_src_open + 1
          /\ cm_pc' = IF cm_src_open + 1 = dist_n THEN "create" ELSE "open"
          /\ UNCHANGED cm_err
       \/ /\ \E gc \in BOOLEAN : cm_src_open' = IF gc THEN 0 ELSE cm_src_open
          /\ cm_pc' = "raised"
          /\ cm_err' = "IOError"
    /\ UNCHANGED <<cm_num_workers, cm_dst_open, cm_task, cm_chunk, cm_lock,
                   cm_out, cm_writes, cm_ret>>

\* lines 240-252 and 277-280: the output is created, the windows are listed
\* and executor.map submits process(window) for each, in window order
CmCreateDst ==
    /\ UNCHANGED <<cv_vars, in_vars, cb_vars, up_vars, mn_vars>>
    /\ cm_pc = "create"
    /\ \/ /\ cm_dst_open' = TRUE
          /\ cm_out' = [w \in Windows |-> NodataOrZero(dist_nodata_attr)]
          /\ cm_task' = [w \in Windows |-> "queued"]
          /\ cm_pc' = "pool"
          /\ UNCHANGED <<cm_err, cm_src_open>>
       \/ /\ \E gc \in BOOLEAN : cm_src_open' = IF gc THEN 0 ELSE cm_src_open
          /\ cm_pc' = "raised"
          /\ cm_err' = "IOError"
          /\ UNCHANGED <<cm_dst_open, cm_out, cm_task>>
    /\ UNCHANGED <<cm_num_workers, cm_chunk, cm_lock, cm_writes, cm_ret>>

\* the tasks a worker thread is running
CmRunning == {w \in Windows : cm_task[w] \in {"ready", "writing"}}

\* (mutant) the write is not guarded by the lock
LockFree_NoLock == TRUE

\* write_lock is not held
LockFree == cm_lock = 0

\* lines 256-268, in a worker thread: the pool has a free thread and window is
\* at the head of its queue; the window is read from every input, without a
\* lock, and combined.  An exception ends the task and stays in its future,
\* which nothing reads.
CmProcess(w) ==
    /\ UNCHANGED <<cv_vars, in_vars, cb_vars, up_vars, mn_vars>>
    /\ cm_pc = "pool"
    /\ cm_task[w] = "queued"
    /\ \A v \in 1..(w - 1) : cm_task[v] # "queued"
    /\ Cardinality(CmRunning) < cm_num_workers
    /\ \/ /\ \E stack \in WindowContent(w) :
                cm_chunk' = [cm_chunk EXCEPT ![w] =
                                CombinePixel(stack, NodataOrZero(dist_nodata_attr))]
          /\ cm_task' = [cm_task EXCEPT ![w] = "ready"]
       \/ /\ cm_task' = [cm_task EXCEPT ![w] = "failed"]
          /\ UNCHANGED cm_chunk
    /\ UNCHANGED <<cm_num_workers, cm_pc, cm_src_open, cm_dst_open, cm_lock,
                   cm_out, cm_writes, cm_err, cm_ret>>

\* line 271: with write_lock (acquire)
CmAcquire(w) ==
    /\ UNCHANGED <<cv_vars, in_vars, cb_vars, up_vars, mn_vars>>
    /\ cm_pc = "pool"
    /\ cm_task[w] = "ready"
    /\ LockFree
    /\ cm_lock' = w
    /\ cm_task' = [cm_task EXCEPT ![w] = "writing"]
    /\ UNCHANGED <<cm_num_workers, cm_pc, cm_src_open, cm_dst_open, cm_chunk,
                   cm_out, cm_writes, cm_err, cm_ret>>

\* what dst.write leaves in the window: the chunk, or anything at all when
\* another thread is inside dst.write at the same time
WriteOutcomes(w) ==
    IF \E v \in Windows \ {w} : cm_task[v] = "writing"
    THEN DistVals \cup {cm_chunk[w]}
    ELSE {cm_chunk[w]}

\* line 273 and the end of the "with write_lock": the write, then the release
CmWrite(w) ==
    /\ UNCHANGED <<cv_vars, in_vars, cb_vars, up_vars, mn_vars>>
    /\ cm_pc = "pool"
    /\ cm_task[w] = "writing"
    /\ \/ /\ \E v \in WriteOutcomes(w) : cm_out' = [cm_out EXCEPT ![w] = v]
          /\ cm_writes' = [cm_writes EXCEPT ![w] = @ + 1]
          /\ cm_task' = [cm_task EXCEPT ![w] = "done"]
       \/ /\ cm_task' = [cm_task EXCEPT ![w] = "failed"]
          /\ UNCHANGED <<cm_out, cm_writes>>
    /\ cm_lock' = 0
    /\ UNCHANGED <<cm_num_workers, cm_pc, cm_src_open, cm_dst_open, cm_chunk,
                   cm_err, cm_ret>>

\* (mutant) the pool is left without waiting for the tasks
CmAllTasksEnded_NoWait == TRUE

\* leaving "with ThreadPoolExecutor" waits until every submitted task ended
CmAllTasksEnded == \A w \in Windows : cm_task[w] \in {"done", "failed"}

\* the end of both "with" blocks: the pool is shut down, then dst is closed
CmJoin ==
    /\ UNCHANGED <<cv_vars, in_vars, cb_vars, up_vars, mn_vars>>
    /\ cm_pc = "pool"
    /\ CmAllTasksEnded
    /\ cm_dst_open' = FALSE
    /\ cm_pc' = "after_with"
    /\ UNCHANGED <<cm_num_workers, cm_src_open, cm_task, cm_chunk, cm_lock,
                   cm_out, cm_writes, cm_err, cm_ret>>

\* lines 282-283
CmReturn ==
    /\ UNCHANGED <<cv_vars, in_vars, cb_vars, up_vars, mn_vars>>
    /\ cm_pc = "after_with"
    /\ cm_ret' = Some(OutputPath)
    /\ cm_pc' = "returned"
    /\ \E gc \in BOOLEAN : cm_src_open' = IF gc THEN 0 ELSE cm_src_open
    /\ UNCHANGED <<cm_num_workers, cm_dst_open, cm_task, cm_chunk, cm_lock,
                   cm_out, cm_writes, cm_err>>

CmNext ==
    \/ CmStart
    \/ CmOpenSrc
    \/ CmCreateDst
    \/ \E w \in Windows : CmProcess(w)
    \/ \E w \in Windows : CmAcquire(w)
    \/ \E w \in Windows : CmWrite(w)
    \/ CmJoin
    \/ CmReturn

\* ------------------------------------------------- update_fm40_raster

\* fm40classes.ClassMap: class label -> list of numeric FM40 codes
ClassMap == ("TU" :> <<161, 165>>) @@ ("TL2" :> <<182>>)

\* ClassMap.get(label): the list, or a falsy value for an unknown label
ClassMapGet(label) == IF label \in DOMAIN ClassMap THEN ClassMap[label] ELSE <<>>

\* the rows a ruleset CSV may hold; a blank new_FM40_code is None
RuleRows ==
    [DIST_code : {131}, original_FM40_code : {"TU", "XX"},
     new_FM40_code : {None, Some("TL2"), Some("YY")}]

\* the ruleset files: None when the file cannot be read
CsvFiles == {None} \cup {Some(rows) : rows \in UNION {[1..k -> RuleRows] : k \in 0..MaxRows}}

\* lines 17-39 of utils.py, for one row of the CSV
ExpandRow(row, update_rules) ==
    LET original_fm40_codes == ClassMapGet(row.original_FM40_code)
        new_fm40_code_list ==
            IF row.new_FM40_code # None THEN ClassMapGet(row.new_FM40_code[1]) ELSE <<>>
        new_fm40_code ==
            IF new_fm40_code_list # <<>> THEN Some(new_fm40_code_list[1]) ELSE None
        keys == {<<row.DIST_code, original_fm40_codes[i]>> : i \in 1..Len(original_fm40_codes)}
    IN  [k \in keys \cup DOMAIN update_rules |->
            IF k \in keys THEN new_fm40_code ELSE update_rules[k]]

RECURSIVE ExpandRows(_, _, _)
ExpandRows(rows, i, update_rules) ==
    IF i > Len(rows) THEN update_rules
    ELSE ExpandRows(rows, i + 1, ExpandRow(rows[i], update_rules))

\* expand_ruleset: None when reading the CSV raised, else the numeric table
ExpandRuleset(csv) == IF csv = None THEN None ELSE Some(ExpandRows(csv[1], 1, <<>>))

\* ndarray.astype(int16) on an integer
AsInt16(x) == ((x + 32768) % 65536) - 32768

\* whether a pixel of the FM40 grid may lie outside the extent of src_dist:
\* only when the grids differ and dist_src is the WarpedVRT
DistOutside == IF up_needs_alignment THEN BOOLEAN ELSE {FALSE}

\* what dist_src.read returns for a pixel: a pixel of the DIST raster, or the
\* nodata of the view, aligned_vrt(src_fm40, src_dist), outside its extent
DistReads(outside) ==
    IF outside THEN {AlignedVrtNodata(up_fm40_nodata_attr)} ELSE {0, 255, 112, 131}

\* (mutant) the non-burnable classes are not short-circuited
get_new_fm40_Burnable(d_code, o_code, update_rules, dist_nodata, fm40_nodata) ==
    LET both_nodata == (d_code = dist_nodata) /\ (o_code = fm40_nodata)
        no_dist == (d_code = dist_nodata)
    IN  IF both_nodata THEN [raises |-> NoErr, val |-> Some(fm40_nodata)]
        ELSE IF no_dist THEN [raises |-> NoErr, val |-> Some(o_code)]
        ELSE IF update_rules = None
             THEN [raises |-> "AttributeError", val |-> None]
             ELSE [raises |-> NoErr,
                   val |-> IF <<d_code, o_code>> \in DOMAIN update_rules[1]
                           THEN update_rules[1][<<d_code, o_code>>]
                           ELSE None]

\* get_new_fm40(d_code, o_code): [raises, val], val the returned new_code
get_new_fm40(d_code, o_code, update_rules, dist_nodata, fm40_nodata) ==
    LET both_nodata == (d_code = dist_nodata) /\ (o_code = fm40_nodata)
        no_dist == (d_code = dist_nodata)
        nonburnable == (o_code <= 100)
    IN  IF both_nodata THEN [raises |-> NoErr, val |-> Some(fm40_nodata)]
        ELSE IF no_dist \/ nonburnable THEN [raises |-> NoErr, val |-> Some(o_code)]
        ELSE IF update_rules = None
             THEN [raises |-> "AttributeError", val |-> None]
             ELSE [raises |-> NoErr,
                   val |-> IF <<d_code, o_code>> \in DOMAIN update_rules[1]
                           THEN update_rules[1][<<d_code, o_code>>]
                           ELSE None]

\* the handles a "with" statement of update_fm40_raster closes on exit
UpScoped == {"src_fm40", "src_dist", "dst_fm40"}

UpIdle ==
    /\ up_rules = None
    /\ up_fm40_nodata_attr = None
    /\ up_dist_nodata_attr = None
    /\ up_needs_alignment = FALSE
    /\ up_pc = "idle"
    /\ up_handles = {}
    /\ up_window = 0
    /\ up_fm40_data = 0
    /\ up_dist_data = 0
    /\ up_outside = FALSE
    /\ up_new_code = None
    /\ up_chunk = 0
    /\ up_out = <<>>
    /\ up_writes = [w \in Windows |-> 0]
    /\ up_err = NoErr

UpInit ==
    /\ up_rules = None
    /\ up_fm40_nodata_attr \in FM40NodataAttrs
    /\ up_dist_nodata_attr \in DistNodataAttrs
    /\ up_needs_alignment = FALSE
    /\ up_pc = "start"
    /\ up_handles = {}
    /\ up_window = 0
    /\ up_fm40_data = 0
    /\ up_dist_data = 0
    /\ up_outside = FALSE
    /\ up_new_code = None
    /\ up_chunk = 0
    /\ up_out = <<>>
    /\ up_writes = [w \in Windows |-> 0]
    /\ up_err = NoErr

UpThrow(err) ==
    /\ up_pc' = "unwind"
    /\ up_err' = err

\* line 35: update_rules = expand_ruleset(ruleset_csv_path)
UpLoadRules ==
    /\ UNCHANGED <<cv_vars, in_vars, cb_vars, cm_vars, mn_vars>>
    /\ up_pc = "start"
    /\ \E csv \in CsvFiles : up_rules' = ExpandRuleset(csv)
    /\ up_pc' = "open_fm40"
    /\ UNCHANGED <<up_fm40_nodata_attr, up_dist_nodata_attr, up_needs_alignment,
                   up_handles, up_window, up_fm40_data, up_dist_data, up_outside,
                   up_new_code,
                   up_chunk, up_out, up_writes, up_err>>

\* line 38: with rasterio.open(original_fm40_path) as src_fm40
UpOpenFm40 ==
    /\ UNCHANGED <<cv_vars, in_vars, cb_vars, cm_vars, mn_vars>>
    /\ up_pc = "open_fm40"
    /\ \/ /\ up_handles' = up_handles \cup {"src_fm40"}
          /\ up_pc' = "open_dist"
          /\ UNCHANGED up_err
       \/ /\ up_pc' = "raised"
          /\ up_err' = "IOError"
          /\ UNCHANGED up_handles
    /\ UNCHANGED <<up_rules, up_fm40_nodata_attr, up_outside, up_dist_nodata_attr,
                   up_needs_alignment, up_window, up_fm40_data, up_dist_data,
                   up_new_code, up_chunk, up_out, up_writes>>

\* line 39: rasterio.open(dist_raster_path) as src_dist
UpOpenDist ==
    /\ UNCHANGED <<cv_vars, in_vars, cb_vars, cm_vars, mn_vars>>
    /\ up_pc = "open_dist"
    /\ \/ /\ up_handles' = up_handles \cup {"src_dist"}
          /\ up_pc' = "align"
          /\ UNCHANGED up_err
       \/ /\ UpThrow("IOError")
          /\ UNCHANGED up_handles
    /\ UNCHANGED <<up_rules, up_fm40_nodata_attr, up_outside, up_dist_nodata_attr,
                   up_needs_alignment, up_window, up_fm40_data, up_dist_data,
                   up_new_code, up_chunk, up_out, up_writes>>

\* lines 42-60: the profile, the nodata values, needs_alignment and dist_src,
\* which is a WarpedVRT bound to no "with" when the grids differ
UpAlign ==
    /\ UNCHANGED <<cv_vars, in_vars, cb_vars, cm_vars, mn_vars>>
    /\ up_pc = "align"
    /\ \/ /\ \E grids_differ \in BOOLEAN :
                /\ up_needs_alignment' = grids_differ
                /\ up_handles' = IF grids_differ THEN up_handles \cup {"dist_src"}
                                 ELSE up_handles
          /\ up_pc' = "create"
          /\ UNCHANGED up_err
       \/ /\ UpThrow("AlignmentError")
          /\ UNCHANGED <<up_needs_alignment, up_handles>>
    /\ UNCHANGED <<up_rules, up_fm40_nodata_attr, up_outside, up_dist_nodata_attr, up_window,
                   up_fm40_data, up_dist_data, up_new_code, up_chunk, up_out,
                   up_writes>>

\* line 63: with rasterio.open(output_fm40_path, 'w', **profile) as dst_fm40
UpCreateDst ==
    /\ UNCHANGED <<cv_vars, in_vars, cb_vars, cm_vars, mn_vars>>
    /\ up_pc = "create"
    /\ \/ /\ up_handles' = up_handles \cup {"dst_fm40"}
          /\ up_out' = [w \in Windows |-> NodataOrZero(up_fm40_nodata_attr)]
          /\ up_window' = 1
          /\ up_pc' = "loop"
          /\ UNCHANGED up_err
       \/ /\ UpThrow("IOError")
          /\ UNCHANGED <<up_handles, up_out, up_window>>
    /\ UNCHANGED <<up_rules, up_fm40_nodata_attr, up_outside, up_dist_nodata_attr,
                   up_needs_alignment, up_fm40_data, up_dist_data, up_new_code,
                   up_chunk, up_writes>>

\* lines 65-69: the next window is read from src_fm40 and from dist_src
UpRead ==
    /\ UNCHANGED <<cv_vars, in_vars, cb_vars, cm_vars, mn_vars>>
    /\ up_pc = "loop"
    /\ up_window <= NTiles
    /\ \/ /\ \E o \in FM40Vals, outside \in DistOutside :
                \E d \in DistReads(outside) :
                    /\ up_fm40_data' = o
                    /\ up_outside' = outside
                    /\ up_dist_data' = d
          /\ up_pc' = "lookup"
          /\ UNCHANGED up_err
       \/ /\ UpThrow("IOError")
          /\ UNCHANGED <<up_fm40_data, up_dist_data, up_outside>>
    /\ UNCHANGED <<up_rules, up_fm40_nodata_attr, up_dist_nodata_attr,
                   up_needs_alignment, up_handles, up_window, up_new_code,
                   up_chunk, up_out, up_writes>>

\* lines 72-87: vectorized_lookup(dist_data, fm40_data).astype(int16).  An
\* exception of get_new_fm40 propagates; a returned None makes the conversion
\* to int16 raise TypeError.
UpLookup ==
    /\ UNCHANGED <<cv_vars, in_vars, cb_vars, cm_vars, mn_vars>>
    /\ up_pc = "lookup"
    /\ LET r == get_new_fm40(up_dist_data, up_fm40_data, up_rules,
                             NodataOrZero(up_dist_nodata_attr),
                             NodataOrZero(up_fm40_nodata_attr))
       IN  /\ up_new_code' = r.val
           /\ IF r.raises # NoErr
              THEN UpThrow(r.raises) /\ UNCHANGED up_chunk
              ELSE IF r.val = None
                   THEN UpThrow("TypeError") /\ UNCHANGED up_chunk
                   ELSE /\ up_chunk' = AsInt16(r.val[1])
                        /\ up_pc' = "write"
                        /\ UNCHANGED up_err
    /\ UNCHANGED <<up_rules, up_fm40_nodata_attr, up_outside, up_dist_nodata_attr,
                   up_needs_alignment, up_handles, up_window, up_fm40_data,
                   up_dist_data, up_out, up_writes>>

\* line 94: dst_fm40.write(updated_fm40_chunk, 1, window=window)
UpWrite ==
    /\ UNCHANGED <<cv_vars, in_vars, cb_vars, cm_vars, mn_vars>>
    /\ up_pc = "write"
    /\ \/ /\ up_out' = [up_out EXCEPT ![up_window] = up_chunk]
          /\ up_writes' = [up_writes EXCEPT ![up_window] = @ + 1]
          /\ up_window' = up_window + 1
          /\ up_pc' = "loop"
          /\ UNCHANGED up_err
       \/ /\ UpThrow("IOError")
          /\ UNCHANGED <<up_out, up_writes, up_window>>
    /\ UNCHANGED <<up_rules, up_fm40_nodata_attr, up_outside, up_dist_nodata_attr,
                   up_needs_alignment, up_handles, up_fm40_data, up_dist_data,
                   up_new_code, up_chunk>>

\* the loop is exhausted: the "with" blocks are left normally
UpLoopEnd ==
    /\ UNCHANGED <<cv_vars, in_vars, cb_vars, cm_vars, mn_vars>>
    /\ up_pc = "loop"
    /\ up_window > NTiles
    /\ up_pc' = "unwind"
    /\ UNCHANGED <<up_rules, up_fm40_nodata_attr, up_outside, up_dist_nodata_attr,
                   up_needs_alignment, up_handles, up_window, up_fm40_data,
                   up_dist_data, up_new_code, up_chunk, up_out, up_writes, up_err>>

\* leaving the "with" blocks closes dst_fm40, src_dist and src_fm40; the
\* WarpedVRT dist_src is closed by nothing in the function (gc: the
\* interpreter's finalisation may close it)
UpExit ==
    /\ UNCHANGED <<cv_vars, in_vars, cb_vars, cm_vars, mn_vars>>
    /\ up_pc = "unwind"
    /\ \E gc \in BOOLEAN :
          up_handles' = IF gc THEN {} ELSE up_handles \ UpScoped
    /\ up_pc' = IF up_err = NoErr THEN "returned" ELSE "raised"
    /\ UNCHANGED <<up_rules, up_fm40_nodata_attr, up_outside, up_dist_nodata_attr,
                   up_needs_alignment, up_window, up_fm40_data, up_dist_data,
                   up_new_code, up_chunk, up_out, up_writes, up_err>>

UpNext ==
    \/ UpLoadRules
    \/ UpOpenFm40
    \/ UpOpenDist
    \/ UpAlign
    \/ UpCreateDst
    \/ UpRead
    \/ UpLookup
    \/ UpWrite
    \/ UpLoopEnd
    \/ UpExit

\* --------------------------------------------------------------- main.py

\* args.bsyears around the effective year; one BS raster per year, named by it
MainYears == UNION {(ey - 2)..(ey + 1) : ey \in EffYears}

\* bs_rasters: at least one year (nargs="+"), each year listed once
Batches ==
    {b \in UNION {[1..k -> MainYears] : k \in 1..MaxBatch} :
        \A i, j \in 1..Len(b) : b[i] = b[j] => i = j}

\* line 104: output_dist_path
OutputDistPath(fire_year, effective_year) == <<"dist", fire_year, "for", effective_year>>

\* line 114: final_output_path
FinalOutputPath(effective_year) == <<"dist_combined", effective_year>>

\* convert_bs_to_dist as main sees it: ValueError when the fire year is after
\* the effective year (lines 61-63), else an I/O failure or output_dist_path
ConvertOutcomes(fire_year, effective_year, output_dist_path) ==
    IF FireAfterEffective(fire_year, effective_year)
    THEN {[raises |-> "ValueError", ret |-> None]}
    ELSE {[raises |-> NoErr, ret |-> Some(output_dist_path)],
          [raises |-> "IOError", ret |-> None]}

\* combine_dist_rasters as main sees it: None for an empty list (lines
\* 159-161), a failed open of an input (line 166), else output_path
CombineOutcomes(dist_raster_paths, output_path) ==
    IF dist_raster_paths = <<>>
    THEN {[raises |-> NoErr, ret |-> None]}
    ELSE {[raises |-> NoErr, ret |-> Some(output_path)],
          [raises |-> "IOError", ret |-> None]}

\* update_fm40_raster as main sees it: it returns or raises
UpdateOutcomes == {NoErr, "IOError", "TypeError", "AttributeError"}

MainIdle ==
    /\ mn_bs_rasters = <<>>
    /\ mn_effective_year = 0
    /\ mn_exists = [dist |-> {}, combined |-> FALSE, updated |-> FALSE]
    /\ mn_pc = "idle"
    /\ mn_i = 0
    /\ mn_conv = <<>>
    /\ mn_dist_paths = <<>>
    /\ mn_bound = FALSE
    /\ mn_combined_dist_raster = None
    /\ mn_update_called = FALSE
    /\ mn_update_arg = None
    /\ mn_err = NoErr

MainInit ==
    /\ mn_bs_rasters \in Batches
    /\ mn_effective_year \in EffYears
    /\ \E d \in SUBSET (1..Len(mn_bs_rasters)), c, u \in BOOLEAN :
          mn_exists = [dist |-> d, combined |-> c, updated |-> u]
    /\ mn_pc = "setup"
    /\ mn_i = 1
    /\ mn_conv = [i \in 1..Len(mn_bs_rasters) |-> "pending"]
    /\ mn_dist_paths = <<>>
    /\ mn_bound = FALSE
    /\ mn_combined_dist_raster = None
    /\ mn_update_called = FALSE
    /\ mn_update_arg = None
    /\ mn_err = NoErr

MainRaise(err) ==
    /\ mn_pc' = "raised"
    /\ mn_err' = err

\* lines 72-91: the ruleset path must exist and every year must match a file
MainSetup ==
    /\ UNCHANGED <<cv_vars, in_vars, cb_vars, cm_vars, up_vars>>
    /\ mn_pc = "setup"
    /\ \E ruleset_exists, all_found \in BOOLEAN :
          IF ~ruleset_exists THEN MainRaise("ValueError")
          ELSE IF ~all_found THEN MainRaise("AssertionError")
          ELSE mn_pc' = "step1" /\ UNCHANGED mn_err
    /\ UNCHANGED <<mn_bs_rasters, mn_effective_year, mn_exists, mn_i, mn_conv,
                   mn_dist_paths, mn_bound, mn_combined_dist_raster,
                   mn_update_called, mn_update_arg>>

\* lines 94-111: one iteration of step 1.  The call of convert_bs_to_dist is
\* inside no try: what it raises ends the script.
MainConvert ==
    /\ UNCHANGED <<cv_vars, in_vars, cb_vars, cm_vars, up_vars>>
    /\ mn_pc = "step1"
    /\ LET i == mn_i
           fire_year == mn_bs_rasters[i]
           output_dist_path == OutputDistPath(fire_year, mn_effective_year)
           next_pc == IF i = Len(mn_bs_rasters) THEN "step2" ELSE "step1"
       IN  IF i \in mn_exists.dist
           THEN /\ mn_conv' = [mn_conv EXCEPT ![i] = "skipped"]
                /\ mn_dist_paths' = Append(mn_dist_paths, output_dist_path)
                /\ mn_i' = i + 1
                /\ mn_pc' = next_pc
                /\ UNCHANGED mn_err
           ELSE \E r \in ConvertOutcomes(fire_year, mn_effective_year, output_dist_path) :
                   IF r.raises # NoErr
                   THEN /\ mn_conv' = [mn_conv EXCEPT ![i] =
                                          IF r.raises = "ValueError" THEN "invalid"
                                          ELSE "failed"]
                        /\ MainRaise(r.raises)
                        /\ UNCHANGED <<mn_dist_paths, mn_i>>
                   ELSE /\ mn_conv' = [mn_conv EXCEPT ![i] = "converted"]
                        /\ mn_dist_paths' = IF r.ret # None
                                            THEN Append(mn_dist_paths, r.ret[1])
                                            ELSE mn_dist_paths
                        /\ mn_i' = i + 1
                        /\ mn_pc' = next_pc
                        /\ UNCHANGED mn_err
    /\ UNCHANGED <<mn_bs_rasters, mn_effective_year, mn_exists, mn_bound,
                   mn_combined_dist_raster, mn_update_called, mn_update_arg>>

\* lines 114-119: step 2.  combined_dist_raster is assigned in the else
\* branch only.
MainCombine ==
    /\ UNCHANGED <<cv_vars, in_vars, cb_vars, cm_vars, up_vars>>
    /\ mn_pc = "step2"
    /\ LET final_output_path == FinalOutputPath(mn_effective_year)
       IN  IF mn_exists.combined
           THEN /\ mn_pc' = "step3"
                /\ UNCHANGED <<mn_bound, mn_combined_dist_raster, mn_err>>
           ELSE \E r \in CombineOutcomes(mn_dist_paths, final_output_path) :
                   IF r.raises # NoErr
                   THEN /\ MainRaise(r.raises)
                        /\ UNCHANGED <<mn_bound, mn_combined_dist_raster>>
                   ELSE /\ mn_bound' = TRUE
                        /\ mn_combined_dist_raster' = r.ret
                        /\ mn_pc' = "step3"
                        /\ UNCHANGED mn_err
    /\ UNCHANGED <<mn_bs_rasters, mn_effective_year, mn_exists, mn_i, mn_conv,
                   mn_dist_paths, mn_update_called, mn_update_arg>>

\* lines 122-126: step 3.  Reading the unbound name combined_dist_raster
\* raises NameError before update_fm40_raster is called.
MainUpdate ==
    /\ UNCHANGED <<cv_vars, in_vars, cb_vars, cm_vars, up_vars>>
    /\ mn_pc = "step3"
    /\ IF mn_exists.updated
       THEN /\ mn_pc' = "done"
            /\ UNCHANGED <<mn_update_called, mn_update_arg, mn_err>>
       ELSE IF ~mn_bound
       THEN /\ MainRaise("NameError")
            /\ UNCHANGED <<mn_update_called, mn_update_arg>>
       ELSE /\ mn_update_called' = TRUE
            /\ mn_update_arg' = mn_combined_dist_raster
            /\ \E e \in UpdateOutcomes :
                  IF e = NoErr THEN mn_pc' = "done" /\ UNCHANGED mn_err
                  ELSE MainRaise(e)
    /\ UNCHANGED <<mn_bs_rasters, mn_effective_year, mn_exists, mn_i, mn_conv,
                   mn_dist_paths, mn_bound, mn_combined_dist_raster>>

MainNext ==
    \/ MainSetup
    \/ MainConvert
    \/ MainCombine
    \/ MainUpdate

\* ------------------------------------------------------ specifications
vars == <<cv_vars, in_vars, cb_vars, cm_vars, up_vars, mn_vars>>

\* one call of convert_bs_to_dist
InitConvert == CvInit /\ InIdle /\ CbIdle /\ CmIdle /\ UpIdle /\ MainIdle
NextConvert == CvNext
SpecConvert == InitConvert /\ [][NextConvert]_vars

\* one call of combine_dist_rasters, over every content of the input rasters
InitCombine ==
    /\ dist_n \in 0..MaxRasters
    /\ dist_nodata_attr \in DistNodataAttrs
    /\ dist_disk = None
    /\ CbInit /\ CvIdle /\ CmIdle /\ UpIdle /\ MainIdle
NextCombine == CbNext
SpecCombine == InitCombine /\ [][NextCombine]_vars

\* combine_dist_rasters and combine_dist_rasters_multi called on the same
\* DIST rasters, each writing its own output file
InitMulti ==
    /\ dist_n \in 0..MaxRasters
    /\ dist_nodata_attr \in DistNodataAttrs
    /\ \E s \in 1..Len(DistSeq) : dist_disk = Some(Scene(dist_n, s))
    /\ CbInit /\ CmInit /\ CvIdle /\ UpIdle /\ MainIdle
NextMulti == CbNext \/ CmNext
SpecMulti == InitMulti /\ [][NextMulti]_vars

\* one call of update_fm40_raster
InitUpdate == UpInit /\ CvIdle /\ InIdle /\ CbIdle /\ CmIdle /\ MainIdle
NextUpdate == UpNext
SpecUpdate == InitUpdate /\ [][NextUpdate]_vars

\* one run of main.py
InitMain == MainInit /\ CvIdle /\ InIdle /\ CbIdle /\ CmIdle /\ UpIdle
NextMain == MainNext
SpecMain == InitMain /\ [][NextMain]_vars

\* ---------------------------------------------------------------- claims
ValidDistCodes == {111, 112, 113, 121, 122, 123, 131, 132, 133}

\* the pixel update_fm40_raster is at, and the nodata values it compares with
UpDistNodata == NodataOrZero(up_dist_nodata_attr)
UpFm40Nodata == NodataOrZero(up_fm40_nodata_attr)
\* get_new_fm40 has returned for the pixel in up_dist_data, up_fm40_data
UpReturned == up_pc = "write" \/ up_err = "TypeError"
\* the pixel takes one of the short-circuits (steps 1 to 3)
UpShortCircuit == up_dist_data = UpDistNodata \/ up_fm40_data <= 100

\* C1: for every pixel with distCode # distNodata and originalCode > 100 for
\* which get_new_fm40 has returned, the returned code is the replacement code
\* when the rule table maps (distCode, originalCode) to one, and originalCode
\* when the pair is marked "no change" or is absent from the table.
C1_RuleTableOutput ==
    (up_rules # None /\ UpReturned /\ ~UpShortCircuit) =>
        LET key == <<up_dist_data, up_fm40_data>>
            table == up_rules[1]
        IN  up_new_code =
                IF key \in DOMAIN table /\ table[key] # None
                THEN table[key]
                ELSE Some(up_fm40_data)

\* the pixel the combine last wrote, and the nodata value it compared with
CbNodata == NodataOrZero(dist_nodata_attr)
CbWrote == cb_pc = "loop" /\ cb_window > 1
CbWritten == cb_out[cb_window - 1]

\* C2: for every pixel whose input codes are not all nodata, the combine
\* writes an input code of minimum rank (codes absent from the table ranked
\* 99), and among several of minimum rank the one of the first-listed raster;
\* <<122, 0, 131>> with nodata 0 gives 131 and <<112, 112>> gives 112.
C2_MinRankFirstListed ==
    (CbWrote /\ ~AllNodata(cb_all_data, CbNodata)) =>
        /\ \E i \in 1..dist_n :
              /\ CbWritten = cb_all_data[i]
              /\ \A j \in 1..dist_n :
                    ImpactRank(cb_all_data[i]) <= ImpactRank(cb_all_data[j])
              /\ \A j \in 1..(i - 1) :
                    /\ ImpactRank(cb_all_data[j]) > ImpactRank(cb_all_data[i])
                    /\ cb_all_data[j] # CbWritten
        /\ (cb_all_data = <<122, 0, 131>> /\ CbNodata = 0) => CbWritten = 131
        /\ cb_all_data = <<112, 112>> => CbWritten = 112

\* C2 witness: the stack <<122, 0, 131>> was combined into 131, and a tie of
\* two unranked codes went to the first raster
C2_Witness ==
    /\ CbWrote /\ CbNodata = 0
    /\ cb_window > 2
    /\ cb_out[1] = 131
    /\ cb_all_data = <<255, 0, 0>> /\ CbWritten = 255

\* C3: for every pixel at which all input codes equal the nodata value, the
\* combine writes the nodata value.
C3_AllNodataStaysNodata ==
    (CbWrote /\ AllNodata(cb_all_data, CbNodata)) => CbWritten = CbNodata

\* C3 witness: three rasters, all 255 at the pixel, nodata 255, 255 written
C3_Witness ==
    /\ CbWrote /\ dist_n = 3
    /\ CbNodata = 255 /\ cb_all_data = <<255, 255, 255>>
    /\ CbWritten = 255 /\ cb_writes[cb_window - 1] = 1

\* C4: for every pixel with distCode = distNodata or originalCode <= 100,
\* get_new_fm40 returns originalCode (fm40Nodata for a nodata pixel) and
\* raises nothing, whatever the rule table is, and that code is what is
\* written.
C4_ShortCircuit ==
    /\ (up_err \in {"TypeError", "AttributeError"}) => ~UpShortCircuit
    /\ (up_pc = "write" /\ UpShortCircuit) =>
          /\ up_new_code = Some(up_fm40_data)
          /\ up_chunk = up_fm40_data
    /\ (up_pc = "loop" /\ up_window > 1 /\ UpShortCircuit) =>
          up_out[up_window - 1] = up_fm40_data

\* C4 witness: a non-burnable 91 under disturbance 131 was written back as 91
\* by a sweep whose ruleset could not be loaded
C4_Witness ==
    /\ up_pc = "loop" /\ up_window > 1
    /\ up_rules = None
    /\ up_dist_data = 131 /\ up_fm40_data = 91
    /\ up_out[up_window - 1] = 91

CvDelta == cv_effective_year - cv_fire_year
CvAllWritten == \A w \in Windows : cv_writes[w] = 1

C6_Severity(v) ==
    CASE v = 5 -> 1 [] v = 4 -> 3 [] v = 3 -> 2 [] v = 2 -> 1 [] v = 1 -> 1

\* C6: for every fire_year <= effective_year and every input pixel v, the
\* pixel written is 100 + 10*severityCode(v) + timeCode when there is a time
\* code and v is one of 1..5, and 0 otherwise; every pixel of the output is
\* one of the nine DIST codes or 0.
C6_EncoderTotal ==
    cv_out # <<>> =>
        /\ \A w \in Windows : cv_out[w] \in ValidDistCodes \cup {0}
        /\ (cv_pc = "loop" /\ cv_window > 1) =>
              cv_out[cv_window - 1] =
                  IF cv_time_code # None /\ cv_bs_data \in {1, 2, 3, 4, 5}
                  THEN 100 + 10 * C6_Severity(cv_bs_data) + cv_time_code[1]
                  ELSE 0

\* C6 witness: class 4 of a fire 7 years old was written as 133, after a pixel
\* outside the classes was written as 0
C6_Witness ==
    /\ cv_pc = "loop" /\ cv_window > 2
    /\ CvDelta = 7
    /\ cv_out[1] = 0 /\ cv_writes[1] = 1
    /\ cv_bs_data = 4 /\ cv_out[cv_window - 1] = 133

\* C7: a conversion with fire_year > effective_year raises ValueError as its
\* first step: it opens no raster and creates and writes no output.
C7_InvalidYearRaisesFirst ==
    cv_fire_year > cv_effective_year =>
        /\ cv_pc \in {"start", "raised"}
        /\ cv_pc = "raised" => cv_err = "ValueError"
        /\ cv_handles = {}
        /\ cv_out = <<>>
        /\ \A w \in Windows : cv_writes[w] = 0

\* C7 witness: the conversion of a fire of the year after has raised
C7_Witness ==
    /\ cv_fire_year = cv_effective_year + 1
    /\ cv_pc = "raised" /\ cv_err = "ValueError"

\* the multi-threaded combine has closed its output, no task having failed
CmClosedClean ==
    /\ cm_pc \in {"after_with", "returned"}
    /\ cm_out # <<>>
    /\ \A w \in Windows : cm_task[w] # "failed"
\* the sequential combine has returned after a sweep without exception
CbSweptClean == cb_pc = "returned" /\ cb_ret # None /\ cb_caught = NoErr

CmWriters == {w \in Windows : cm_task[w] = "writing"}

\* C9: at most one worker thread is inside the write to the output raster,
\* and it is the holder of write_lock.
C9_WriterMutualExclusion ==
    /\ Cardinality(CmWriters) <= 1
    /\ \A w \in CmWriters : cm_lock = w
    /\ cm_lock # 0 => cm_lock \in CmWriters

\* C9 witness: one thread is writing while another has read and combined its
\* window, without a lock, and waits for write_lock
C9_Witness ==
    \E w, v \in Windows :
        /\ w # v
        /\ cm_task[w] = "writing" /\ cm_lock = w
        /\ cm_task[v] = "ready"

\* C10: every raster handle a sweep opened is closed when the sweep has
\* returned or raised, in convert_bs_to_dist, combine_dist_rasters and
\* update_fm40_raster.
C10_HandlesClosedAtReturn ==
    /\ cv_pc \in {"returned", "raised"} => cv_handles = {}
    /\ cb_pc \in {"returned", "raised"} => (cb_src_open = 0 /\ ~cb_dst_open)
    /\ up_pc \in {"returned", "raised"} => up_handles = {}

\* the ruleset could not be loaded: expand_ruleset has returned None
UpRulesetFailed == up_pc \notin {"idle", "start"} /\ up_rules = None

\* C11: an I/O failure during a combine sweep is surfaced to the caller of
\* combine_dist_rasters: once a failure has happened the call does not return
\* the output path, and a returned output path names a file whose every
\* window was written.
C11_IOFailureSurfaced ==
    /\ cb_caught # NoErr => cb_ret = None
    /\ (cb_pc = "returned" /\ cb_ret # None) => \A w \in Windows : cb_writes[w] = 1

\* C12: when expand_ruleset fails, update_fm40_raster raises before the
\* output raster is created and before any tile is written, and it never
\* returns normally.
C12_RulesetFailureRaisesFirst ==
    UpRulesetFailed =>
        /\ up_out = <<>>
        /\ \A w \in Windows : up_writes[w] = 0
        /\ up_pc # "returned"

\* the conversions of step 1 that raised for an invalid fire year
MainInvalid == {i \in 1..Len(mn_conv) : mn_conv[i] = "invalid"}

\* C13: an invalid-input failure in one conversion does not abort the batch:
\* when main has ended after a conversion raised for a fire year after the
\* effective year, every other BS raster of the batch was still attempted
\* (converted, failed on its own, or skipped because its output existed).
C13_BatchContinuesAfterInvalid ==
    (mn_pc \in {"done", "raised"} /\ MainInvalid # {}) =>
        \A i \in 1..Len(mn_conv) : mn_conv[i] # "pending"

\* C14: a pixel of an aligned view whose footprint lies outside the source
\* raster's extent reads as that raster's nodata value, the value the sweep
\* compares against (dist_nodata in update_fm40_raster).
C14_AlignedFillIsSourceNodata ==
    up_outside => up_dist_data = UpDistNodata

\* C15: in main, step 3 is never left without the combined DIST path: reading
\* combined_dist_raster never fails for an unbound name, and whenever
\* update_fm40_raster is called the path it is given is the combined DIST
\* file of the effective year, whatever output files existed at the start.
C15_Step3HasCombinedPath ==
    /\ mn_err # "NameError"
    /\ mn_update_called =>
           mn_update_arg = Some(FinalOutputPath(mn_effective_year))

====
